---- MODULE Spec2Model ----
(***************************************************************************)
(* DailyQuest API: the task-completion and gamification engine.            *)
(*                                                                         *)
(* The store is the relational database (users, tasks, task_completions,   *)
(* user_achievements, achievements).  Every request handler runs in its    *)
(* own SQLAlchemy session (autocommit=False, autoflush=False) and is one   *)
(* action: what the handler committed before it returned or raised is the  *)
(* next state, what was only pending in the session is dropped with it.    *)
(*                                                                         *)
(* Time is counted in clock units, DayLen units to a calendar day.  `now`  *)
(* is the UTC clock (datetime.utcnow()), `now + tz` the server's local     *)
(* clock (datetime.now()).                                                 *)
(***************************************************************************)
EXTENDS Integers, Sequences, FiniteSets, Bags, TLC

VARIABLES
    now,                \* UTC clock
    tz,                 \* server's UTC offset, in clock units
    users,              \* users table: id -> [xp, level]
    tasks,              \* tasks table: id -> task row
    task_completions,   \* task_completions table: bag of ledger rows
    user_achievements,  \* user_achievements table: bag of [user_id, key]
    achievements,       \* achievements table: the requirement keys seeded
    session_new,        \* UserAchievement rows pending in an open session
    sessions,           \* in-flight concurrent requests: id -> session state
    result,             \* what the last request returned or raised
    hist                \* history: levels_gained reported / not reported

vars == <<now, tz, users, tasks, task_completions, user_achievements,
          achievements, session_new, sessions, result, hist>>

----------------------------------------------------------------------------
(* Bounds of the model. *)

DayLen == 2
MaxTime == 4
MaxRows == 2

----------------------------------------------------------------------------
(* Identifiers and reference data. *)

UserIds == {"u1", "u2"}
NoSuchUser == "u0"
TaskIds == {"h1", "t1"}
NoSuchTask == "x0"

TzOffsets == {-1, 0, 1}

None == {}
Some(t) == {t}
TheValue(opt) == CHOOSE t \in opt : TRUE

AchievementKey ==
    {"LEVEL_5", "LEVEL_10", "FIRST_HABIT", "FIRST_TODO", "STREAK_3", "STREAK_7"}

all_achievements == AchievementKey

----------------------------------------------------------------------------
(* XP / level model. *)

Difficulty == {"EASY", "MEDIUM", "HARD"}

(* A table with two of its entries exchanged. *)
calculate_xp_earned_swapped(difficulty) ==
    CASE difficulty = "EASY" -> 10
      [] difficulty = "MEDIUM" -> 30
      [] difficulty = "HARD" -> 20
      [] OTHER -> 10

(* A table that lost its entries: every difficulty earns the default. *)
calculate_xp_earned_default(difficulty) == 10

calculate_xp_earned(difficulty) ==
    CASE difficulty = "EASY" -> 10
      [] difficulty = "MEDIUM" -> 20
      [] difficulty = "HARD" -> 30
      [] OTHER -> 10

(* A level every 200 XP. *)
calculate_level_from_xp_per_200(xp) == (xp \div 200) + 1

(* Rounding to the nearest hundred instead of flooring. *)
calculate_level_from_xp_rounded(xp) == ((xp + 50) \div 100) + 1

(* Levels counted from 0 instead of 1. *)
calculate_level_from_xp_from_zero(xp) == xp \div 100

calculate_level_from_xp(xp) == (xp \div 100) + 1

calculate_xp_needed_for_next_level(current_xp) ==
    LET current_level == calculate_level_from_xp(current_xp)
        xp_for_next_level == current_level * 100
    IN xp_for_next_level - current_xp

Max(a, b) == IF a >= b THEN a ELSE b

----------------------------------------------------------------------------
(* Calendar. *)

TodayStart(local_now) == (local_now \div DayLen) * DayLen

DateOf(t) == t \div DayLen

InToday(completed_date, local_now) ==
    /\ completed_date >= TodayStart(local_now)
    /\ completed_date < TodayStart(local_now) + DayLen

----------------------------------------------------------------------------
(* The store as one value, and counting over a bag of rows. *)

Store ==
    [users |-> users, tasks |-> tasks, task_completions |-> task_completions,
     user_achievements |-> user_achievements, achievements |-> achievements]

RECURSIVE SumCopies(_, _)
SumCopies(S, B) ==
    IF S = {} THEN 0
    ELSE LET e == CHOOSE x \in S : TRUE
         IN CopiesIn(e, B) + SumCopies(S \ {e}, B)

Single(e) == SetToBag({e})

UnlockRow(user_id, key) == [user_id |-> user_id, key |-> key]

----------------------------------------------------------------------------
(* Completion ledger queries. *)

check_if_already_completed_today(db, task_id, user_id, local_now) ==
    \E c \in BagToSet(db.task_completions) :
        /\ c.task_id = task_id
        /\ c.user_id = user_id
        /\ InToday(c.completed_date, local_now)

habit_completions_count(db, user_id) ==
    SumCopies({c \in BagToSet(db.task_completions) :
                   /\ c.task_id \in DOMAIN db.tasks
                   /\ db.tasks[c.task_id].user_id = user_id
                   /\ db.tasks[c.task_id].task_type = "habit"},
              db.task_completions)

todo_completions_count(db, user_id) ==
    SumCopies({c \in BagToSet(db.task_completions) :
                   /\ c.task_id \in DOMAIN db.tasks
                   /\ db.tasks[c.task_id].user_id = user_id
                   /\ db.tasks[c.task_id].task_type = "todo"},
              db.task_completions)

total_completions(db, user_id) ==
    SumCopies({c \in BagToSet(db.task_completions) : c.user_id = user_id},
              db.task_completions)

total_habits(db, user_id) ==
    Cardinality({t \in DOMAIN db.tasks :
                     /\ db.tasks[t].user_id = user_id
                     /\ db.tasks[t].task_type = "habit"})

----------------------------------------------------------------------------
(* Achievement engine.  The existence check queries the store; rows added  *)
(* to the session are pending until the next commit (autoflush is off).    *)

get_achievement_by_key(db, key) ==
    IF key \in db.achievements THEN Some(key) ELSE None

(* An existence check that never finds the row. *)
check_if_user_has_achievement_never(db, user_id, achievement_id) == FALSE

check_if_user_has_achievement(db, user_id, achievement_id) ==
    CopiesIn(UnlockRow(user_id, achievement_id), db.user_achievements) > 0

unlock_achievement_for_user(db, pending, user_id, achievement) ==
    IF achievement = None
    THEN pending
    ELSE IF check_if_user_has_achievement(db, user_id, TheValue(achievement))
         THEN pending
         ELSE pending (+) Single(UnlockRow(user_id, TheValue(achievement)))

(* The requirement keys whose condition check_and_unlock_achievements finds *)
(* true, given the user and task objects of the session and the store.      *)
QualifyingKeys(db, user_id, user_level, completed_task) ==
    LET is_habit == completed_task.task_type = "habit"
        is_todo == completed_task.task_type = "todo"
        streak == completed_task.current_streak
        total == total_completions(db, user_id)
    IN    {k \in {"LEVEL_5"} : user_level >= 5}
     \cup {k \in {"LEVEL_10"} : user_level >= 10}
     \cup {k \in {"LEVEL_20"} : user_level >= 20}
     \cup {k \in {"LEVEL_50"} : user_level >= 50}
     \cup {k \in {"FIRST_HABIT"} :
               is_habit /\ habit_completions_count(db, user_id) = 1}
     \cup {k \in {"FIRST_TODO"} :
               is_todo /\ todo_completions_count(db, user_id) = 1}
     \cup {k \in {"STREAK_3"} : is_habit /\ streak >= 3}
     \cup {k \in {"STREAK_7"} : is_habit /\ streak >= 7}
     \cup {k \in {"STREAK_30"} : is_habit /\ streak >= 30}
     \cup {k \in {"STREAK_100"} : is_habit /\ streak >= 100}
     \cup {k \in {"COMPLETE_10_TASKS"} : total >= 10}
     \cup {k \in {"COMPLETE_50_TASKS"} : total >= 50}
     \cup {k \in {"COMPLETE_100_TASKS"} : total >= 100}
     \cup {k \in {"COMPLETE_500_TASKS"} : total >= 500}
     \cup {k \in {"CREATE_5_HABITS"} : total_habits(db, user_id) >= 5}

RECURSIVE UnlockEach(_, _, _, _)
UnlockEach(keys, db, pending, user_id) ==
    IF keys = {} THEN pending
    ELSE LET k == CHOOSE x \in keys : TRUE
         IN UnlockEach(keys \ {k}, db,
                unlock_achievement_for_user(db, pending, user_id,
                    get_achievement_by_key(db, k)),
                user_id)

(* [raised, pending]: raised when a qualifying rule names a member that    *)
(* AchievementKey does not define (AttributeError); otherwise the rows the  *)
(* pass leaves pending in the session.                                      *)
check_and_unlock_achievements(db, pending, user_id, user_level, completed_task) ==
    LET keys == QualifyingKeys(db, user_id, user_level, completed_task)
    IN IF keys \subseteq AchievementKey
       THEN [raised |-> FALSE,
             pending |-> UnlockEach(keys, db, pending, user_id)]
       ELSE [raised |-> TRUE, pending |-> pending]

----------------------------------------------------------------------------
(* TaskCompletionRepository. *)

Completion(task_id, user_id, completed_date, xp_earned) ==
    [task_id |-> task_id, user_id |-> user_id,
     completed_date |-> completed_date, xp_earned |-> xp_earned]

(* The streak engine; complete_task does not call it. *)
update_habit_streak(habit, local_now) ==
    IF habit.last_completed = None
    THEN [habit EXCEPT !.current_streak = 1,
                       !.last_completed = Some(local_now)]
    ELSE IF DateOf(TheValue(habit.last_completed)) = DateOf(local_now - DayLen)
         THEN [habit EXCEPT !.current_streak = habit.current_streak + 1,
                            !.last_completed = Some(local_now)]
         ELSE [habit EXCEPT !.current_streak = 1,
                            !.last_completed = Some(local_now)]


(* A completion that leaves a to-do's completed flag as it was. *)
CompletedTask_unmarked(task, utcnow) ==
    IF task.task_type = "habit"
    THEN [task EXCEPT !.current_streak = task.current_streak + 1,
                      !.last_completed = Some(utcnow)]
    ELSE task

(* Step 5 and 6 of complete_task: the task object after the completion. *)
CompletedTask(task, utcnow) ==
    IF task.task_type = "habit"
    THEN [task EXCEPT !.current_streak = task.current_streak + 1,
                      !.last_completed = Some(utcnow)]
    ELSE IF task.task_type = "todo"
         THEN [task EXCEPT !.completed = TRUE]
         ELSE task

(* Step 7 of complete_task: the user's level after the completion. *)
LevelAfter(current_level, new_xp) ==
    IF (new_xp \div 100) + 1 > current_level
    THEN (new_xp \div 100) + 1
    ELSE current_level

(* [raised, db, completion, streak_updated, new_streak]: db is the store    *)
(* after the commit of step 9, or the store as it was when the call raised  *)
(* before it.  fault = "repo": the store fails before the commit.           *)
repo_complete_task(db, task_id, user_id, utcnow, fault) ==
    LET unchanged == [raised |-> TRUE, db |-> db,
                      completion |-> Completion(task_id, user_id, utcnow, 0),
                      streak_updated |-> FALSE, new_streak |-> 0]
    IN
    IF ~(task_id \in DOMAIN db.tasks /\ db.tasks[task_id].user_id = user_id)
    THEN unchanged
    ELSE IF user_id \notin DOMAIN db.users
    THEN unchanged
    ELSE
    LET task == db.tasks[task_id]
        xp_earned == calculate_xp_earned(task.difficulty)
        completion == Completion(task_id, user_id, utcnow, xp_earned)
        user == db.users[user_id]
        new_xp == user.xp + xp_earned
        task1 == CompletedTask(task, utcnow)
        user1 == [xp |-> new_xp, level |-> LevelAfter(user.level, new_xp)]
        pass == check_and_unlock_achievements(db, EmptyBag, user_id,
                                              user1.level, task1)
    IN
    IF pass.raised \/ fault = "repo"
    THEN unchanged
    ELSE [raised |-> FALSE,
          db |-> [db EXCEPT
                    !.task_completions = @ (+) Single(completion),
                    !.users = [@ EXCEPT ![user_id] = user1],
                    !.tasks = [@ EXCEPT ![task_id] = task1],
                    !.user_achievements = @ (+) pass.pending],
          completion |-> completion,
          streak_updated |-> task.task_type = "habit",
          new_streak |-> IF task.task_type = "habit"
                         THEN task1.current_streak ELSE 0]

----------------------------------------------------------------------------
(* TaskService. *)

Response(op, status, task_id, user_id) ==
    [op |-> op, status |-> status, task_id |-> task_id, user_id |-> user_id,
     xp_earned |-> 0, xp_before |-> 0, xp_after |-> 0,
     level_before |-> 0, level_after |-> 0,
     level_up_occurred |-> FALSE, levels_gained |-> 0,
     streak_updated |-> FALSE, new_streak |-> 0]

NoResponse == Response("none", "none", NoSuchTask, NoSuchUser)

(* An eligibility check that lost its to-do rule. *)
validate_task_completion_eligibility_habits_only(db, task_id, user_id, local_now) ==
    LET task == db.tasks[task_id]
    IN ~(task.task_type = "habit"
            /\ check_if_already_completed_today(db, task_id, user_id, local_now))

(* TRUE when the task may be completed, FALSE for TaskAlreadyCompletedError. *)
validate_task_completion_eligibility(db, task_id, user_id, local_now) ==
    LET task == db.tasks[task_id]
    IN IF task.task_type = "todo" /\ task.completed
       THEN FALSE
       ELSE IF task.task_type = "habit"
               /\ check_if_already_completed_today(db, task_id, user_id, local_now)
            THEN FALSE
            ELSE TRUE

(* Steps 3 to 7 of TaskService.complete_task, for a request that passed     *)
(* validation.  [db, result, committed]: the store the request leaves and   *)
(* its answer.  fault = "service": the store fails during the service's     *)
(* achievement pass, after the repository has committed.                    *)
complete_validated_task(db, task_id, user_id, utcnow, fault) ==
    LET user_level_before == db.users[user_id].level
        user_xp_before == db.users[user_id].xp
        repo == repo_complete_task(db, task_id, user_id, utcnow, fault)
    IN
    IF repo.raised
    THEN [db |-> db, committed |-> FALSE,
          result |-> Response("complete", "Exception", task_id, user_id)]
    ELSE
    LET new_xp == repo.db.users[user_id].xp
        new_level == calculate_level_from_xp(new_xp)
        level_up_occurred == new_level > user_level_before
        levels_gained == IF level_up_occurred
                         THEN new_level - user_level_before ELSE 0
        db1 == IF level_up_occurred
               THEN [repo.db EXCEPT !.users[user_id].level = new_level]
               ELSE repo.db
        pass == check_and_unlock_achievements(db1, EmptyBag, user_id,
                    db1.users[user_id].level, db1.tasks[task_id])
        gamification ==
            [Response("complete", "ok", task_id, user_id) EXCEPT
                !.xp_earned = repo.completion.xp_earned,
                !.xp_before = user_xp_before,
                !.xp_after = db1.users[user_id].xp,
                !.level_before = user_level_before,
                !.level_after = db1.users[user_id].level,
                !.level_up_occurred = level_up_occurred,
                !.levels_gained = levels_gained,
                !.streak_updated = repo.streak_updated,
                !.new_streak = repo.new_streak]
    IN
    IF pass.raised \/ fault = "service"
    THEN [db |-> db1, committed |-> TRUE,
          result |-> Response("complete", "Exception", task_id, user_id)]
    ELSE [db |-> [db1 EXCEPT !.user_achievements = @ (+) pass.pending],
          committed |-> TRUE,
          result |-> gamification]

(* The completion run before the eligibility check: a refused request has   *)
(* already written. *)
service_complete_task_late_validation(db, task_id, user_id, utcnow, local_now, fault) ==
    IF ~(task_id \in DOMAIN db.tasks /\ db.tasks[task_id].user_id = user_id)
    THEN [db |-> db, committed |-> FALSE,
          result |-> Response("complete", "TaskNotFoundError", task_id, user_id)]
    ELSE IF user_id \notin DOMAIN db.users
    THEN [db |-> db, committed |-> FALSE,
          result |-> Response("complete", "TaskNotFoundError", task_id, user_id)]
    ELSE LET out == complete_validated_task(db, task_id, user_id, utcnow, fault)
         IN IF ~validate_task_completion_eligibility(db, task_id, user_id, local_now)
            THEN [db |-> out.db, committed |-> out.committed,
                  result |-> Response("complete", "TaskAlreadyCompletedError",
                                      task_id, user_id)]
            ELSE out

(* TaskService.complete_task: validation, then the completion. *)
service_complete_task(db, task_id, user_id, utcnow, local_now, fault) ==
    IF ~(task_id \in DOMAIN db.tasks /\ db.tasks[task_id].user_id = user_id)
    THEN [db |-> db, committed |-> FALSE,
          result |-> Response("complete", "TaskNotFoundError", task_id, user_id)]
    ELSE IF user_id \notin DOMAIN db.users
    THEN [db |-> db, committed |-> FALSE,
          result |-> Response("complete", "TaskNotFoundError", task_id, user_id)]
    ELSE IF ~validate_task_completion_eligibility(db, task_id, user_id, local_now)
    THEN [db |-> db, committed |-> FALSE,
          result |-> Response("complete", "TaskAlreadyCompletedError",
                              task_id, user_id)]
    ELSE complete_validated_task(db, task_id, user_id, utcnow, fault)

----------------------------------------------------------------------------
(* task_completions router: DELETE /tasks/{task_id}/complete. *)

TodaysCompletions(db, task_id, user_id, local_now) ==
    {c \in BagToSet(db.task_completions) :
        /\ c.task_id = task_id
        /\ c.user_id = user_id
        /\ InToday(c.completed_date, local_now)}

(* A reversal that leaves the habit's last_completed in place. *)
UncompletedTask_keeps_date(task) ==
    IF task.task_type = "habit"
    THEN [task EXCEPT !.current_streak = Max(0, task.current_streak - 1)]
    ELSE IF task.task_type = "todo"
         THEN [task EXCEPT !.completed = FALSE]
         ELSE task

UncompletedTask(task) ==
    IF task.task_type = "habit"
    THEN [task EXCEPT !.current_streak = Max(0, task.current_streak - 1),
                      !.last_completed = None]
    ELSE IF task.task_type = "todo"
         THEN [task EXCEPT !.completed = FALSE]
         ELSE task


(* A reversal that also takes back the user's unlocks. *)
uncomplete_task_revoking(db, task_id, user_id, completion) ==
    [db EXCEPT
        !.users[user_id].xp = Max(0, @ - completion.xp_earned),
        !.tasks[task_id] = UncompletedTask(@),
        !.task_completions = @ (-) Single(completion),
        !.user_achievements =
            [r \in {x \in BagToSet(@) : x.user_id # user_id} |-> @[r]]]


(* A reversal that subtracts the XP of the task's current difficulty. *)
uncomplete_task_recomputed(db, task_id, user_id, completion) ==
    [db EXCEPT
        !.users[user_id].xp =
            Max(0, @ - calculate_xp_earned(db.tasks[task_id].difficulty)),
        !.tasks[task_id] = UncompletedTask(@),
        !.task_completions = @ (-) Single(completion)]

(* The store after the router deleted `completion`, the row .first() gave. *)
uncomplete_task(db, task_id, user_id, completion) ==
    [db EXCEPT
        !.users[user_id].xp = Max(0, @ - completion.xp_earned),
        !.tasks[task_id] = UncompletedTask(@),
        !.task_completions = @ (-) Single(completion)]

----------------------------------------------------------------------------
(* users router: GET /users/me, the first-login check. *)

check_first_login_achievement(db, user_id) ==
    IF "FIRST_LOGIN" \notin AchievementKey
    THEN [raised |-> TRUE, db |-> db]
    ELSE [raised |-> FALSE,
          db |-> [db EXCEPT !.user_achievements =
                     @ (+) unlock_achievement_for_user(db, EmptyBag, user_id,
                               get_achievement_by_key(db, "FIRST_LOGIN"))]]

----------------------------------------------------------------------------
(* Initial states. *)

Habit(user_id, difficulty) ==
    [user_id |-> user_id, task_type |-> "habit", difficulty |-> difficulty,
     current_streak |-> 0, last_completed |-> None,
     completed |-> FALSE, completed_at |-> None]

ToDo(user_id, difficulty) ==
    [user_id |-> user_id, task_type |-> "todo", difficulty |-> difficulty,
     current_streak |-> 0, last_completed |-> None,
     completed |-> FALSE, completed_at |-> None]

(* u1 is stored as the service tests' fixture stores its user (50 XP, level  *)
(* 1), or with a level that lags its XP, as the seed script stores its demo *)
(* user; u2 is a user as the API creates it (0 XP, level 1).                *)
InitialUsers ==
    {[xp |-> 50, level |-> 1], [xp |-> 380, level |-> 2]}

(* No request is in flight: every handler of the sequential specifications *)
(* runs from its first query to its return in one step.                     *)
NoSessions == <<>>

(* History of a behaviour: the levels_gained the successful responses       *)
(* reported, the levels gained by requests that raised after their commit,  *)
(* and the users' initial XP and level.                                     *)
History(initial_users) ==
    [reported |-> [u \in UserIds |-> 0], unreported |-> [u \in UserIds |-> 0],
     level0 |-> [u \in UserIds |-> initial_users[u].level],
     xp0 |-> [u \in UserIds |-> initial_users[u].xp]]

Init ==
    /\ now = 0
    /\ tz \in TzOffsets
    /\ \E u1 \in InitialUsers :
          users = [u \in UserIds |-> IF u = "u1" THEN u1 ELSE [xp |-> 0, level |-> 1]]
    /\ tasks = [t \in TaskIds |->
                   IF t = "h1" THEN Habit("u1", "HARD") ELSE ToDo("u1", "MEDIUM")]
    /\ task_completions = EmptyBag
    /\ user_achievements = EmptyBag
    /\ achievements = all_achievements
    /\ session_new = EmptyBag
    /\ sessions = NoSessions
    /\ result = NoResponse
    /\ hist = History(users)

----------------------------------------------------------------------------
(* Requests. *)

Commit(db) ==
    /\ users' = db.users
    /\ tasks' = db.tasks
    /\ task_completions' = db.task_completions
    /\ user_achievements' = db.user_achievements

(* POST /tasks/{task_id}/complete, through TaskService.complete_task.  A    *)
(* fault is drawn only for a request that passes validation.                *)
CompleteTask(task_id, user_id, fault) ==
    LET out == service_complete_task(Store, task_id, user_id, now, now + tz, fault)
    IN /\ out.result.status \in {"TaskNotFoundError", "TaskAlreadyCompletedError"}
              => fault = "none"
       /\ Commit(out.db)
       /\ result' = out.result
       /\ UNCHANGED <<now, tz, achievements, session_new, sessions>>

(* DELETE /tasks/{task_id}/complete. *)
UncompleteTask(task_id, user_id) ==
    /\ user_id \in DOMAIN users
    /\ IF ~(task_id \in DOMAIN tasks /\ tasks[task_id].user_id = user_id)
       THEN /\ result' = Response("uncomplete", "TaskNotFound", task_id, user_id)
            /\ UNCHANGED <<users, tasks, task_completions, user_achievements>>
       ELSE IF TodaysCompletions(Store, task_id, user_id, now + tz) = {}
       THEN /\ result' = Response("uncomplete", "NoCompletionToday", task_id, user_id)
            /\ UNCHANGED <<users, tasks, task_completions, user_achievements>>
       ELSE \E completion \in TodaysCompletions(Store, task_id, user_id, now + tz) :
            /\ Commit(uncomplete_task(Store, task_id, user_id, completion))
            /\ result' = [Response("uncomplete", "ok", task_id, user_id) EXCEPT
                             !.xp_earned = completion.xp_earned,
                             !.xp_before = users[user_id].xp,
                             !.xp_after = users'[user_id].xp]
    /\ UNCHANGED <<now, tz, achievements, session_new, sessions, hist>>

(* GET /users/me. *)
ReadUsersMe(user_id) ==
    /\ user_id \in DOMAIN users
    /\ Commit(check_first_login_achievement(Store, user_id).db)
    /\ result' = Response("read_users_me", "ok", NoSuchTask, user_id)
    /\ UNCHANGED <<now, tz, achievements, session_new, sessions, hist>>

(* The clock advances by one unit; the last response has been delivered. *)
Tick ==
    /\ now < MaxTime
    /\ now' = now + 1
    /\ result' = NoResponse
    /\ UNCHANGED <<tz, users, tasks, task_completions, user_achievements,
                   achievements, session_new, sessions, hist>>

Faults == {"none", "repo", "service"}

(* The (task id, user id) pairs requests are issued with: every task by its *)
(* owner, a task by another user, a task id and a user id that do not exist. *)
Requests ==
    {<<t, tasks[t].user_id>> : t \in TaskIds}
        \cup {<<"h1", "u2">>, <<NoSuchTask, "u1">>, <<"h1", NoSuchUser>>}

Next ==
    \/ \E r \in Requests, f \in Faults :
          /\ BagCardinality(task_completions) < MaxRows
          /\ CompleteTask(r[1], r[2], f)
          /\ UNCHANGED hist
    \/ \E r \in Requests : UncompleteTask(r[1], r[2])
    \/ \E u \in UserIds : ReadUsersMe(u)
    \/ Tick

Spec == Init /\ [][Next]_vars

----------------------------------------------------------------------------
(* The bulk scenario of the service tests: one user, ten HARD to-dos        *)
(* completed one after the other at one instant.                            *)

BulkOrder ==
    <<"b01", "b02", "b03", "b04", "b05", "b06", "b07", "b08", "b09", "b10">>

BulkTaskIds == {BulkOrder[i] : i \in 1..Len(BulkOrder)}

InitBulk ==
    /\ now = 0
    /\ tz = 0
    /\ \E u1 \in InitialUsers :
          users = [u \in UserIds |-> IF u = "u1" THEN u1 ELSE [xp |-> 0, level |-> 1]]
    /\ tasks = [t \in BulkTaskIds |-> ToDo("u1", "HARD")]
    /\ task_completions = EmptyBag
    /\ user_achievements = EmptyBag
    /\ achievements = all_achievements
    /\ session_new = EmptyBag
    /\ sessions = NoSessions
    /\ result = NoResponse
    /\ hist = History(users)

(* CompleteTask, with the history of the levels it reported. *)
CompleteTaskRecorded(task_id, user_id, fault) ==
    /\ CompleteTask(task_id, user_id, fault)
    /\ hist' = IF result'.status = "ok"
               THEN [hist EXCEPT !.reported[user_id] = @ + result'.levels_gained]
               ELSE IF result'.status = "Exception"
                    THEN [hist EXCEPT !.unreported[user_id] =
                             @ + (users'[user_id].level - users[user_id].level)]
                    ELSE hist

NextBulk ==
    \E i \in 1..Len(BulkOrder), f \in Faults :
        /\ \A j \in 1..(i - 1) : tasks[BulkOrder[j]].completed
        /\ CompleteTaskRecorded(BulkOrder[i], "u1", f)

SpecBulk == InitBulk /\ [][NextBulk]_vars

----------------------------------------------------------------------------
(* unlock_achievement_for_user called on an open session: each call leaves  *)
(* its row pending; a flush or commit writes the pending rows to the store. *)

MaxUnlocks == 3

InitUnlock ==
    /\ now = 0
    /\ tz = 0
    /\ users = [u \in UserIds |-> [xp |-> 0, level |-> 1]]
    /\ tasks = [t \in TaskIds |->
                   IF t = "h1" THEN Habit("u1", "HARD") ELSE ToDo("u1", "MEDIUM")]
    /\ task_completions = EmptyBag
    /\ user_achievements = EmptyBag
    /\ achievements \in {all_achievements, {}}
    /\ session_new = EmptyBag
    /\ sessions = NoSessions
    /\ result = NoResponse
    /\ hist = History(users)

UnlockCall(user_id, key) ==
    /\ BagCardinality(user_achievements) + BagCardinality(session_new) < MaxUnlocks
    /\ session_new' = unlock_achievement_for_user(Store, session_new, user_id,
                          get_achievement_by_key(Store, key))
    /\ UNCHANGED <<now, tz, users, tasks, task_completions, user_achievements,
                   achievements, sessions, result, hist>>

SessionCommit ==
    /\ session_new # EmptyBag
    /\ user_achievements' = user_achievements (+) session_new
    /\ session_new' = EmptyBag
    /\ UNCHANGED <<now, tz, users, tasks, task_completions, achievements,
                   sessions, result, hist>>

NextUnlock ==
    \/ \E u \in UserIds, k \in AchievementKey : UnlockCall(u, k)
    \/ SessionCommit

SpecUnlock == InitUnlock /\ [][NextUnlock]_vars

----------------------------------------------------------------------------
(* Concurrent requests.  The completion endpoint is a synchronous handler   *)
(* that the server runs on a thread pool; each request has its own session  *)
(* on a READ COMMITTED connection.  A session keeps the user and task       *)
(* objects as it loaded them; a commit writes the columns the session       *)
(* changed, with the values the session computed, and refreshes or expires  *)
(* the objects.  Each step below is one stretch of the handler between two  *)
(* points where the other request may run.                                  *)

RequestIds == {"r1", "r2"}

IdleSession ==
    [pc |-> "idle", task_id |-> NoSuchTask, user_id |-> NoSuchUser,
     user |-> [xp |-> 0, level |-> 0], task |-> ToDo(NoSuchUser, "EASY"),
     xp_before |-> 0, level_before |-> 0,
     completion |-> Completion(NoSuchTask, NoSuchUser, 0, 0),
     streak_updated |-> FALSE, new_streak |-> 0,
     pending |-> EmptyBag, level_up_occurred |-> FALSE, levels_gained |-> 0,
     result |-> NoResponse]

(* Steps 1 and 2 of TaskService.complete_task: the session loads the task   *)
(* and the user and runs the eligibility check against the store.           *)
BeginRequest(r, task_id, user_id) ==
    /\ sessions[r].pc = "idle"
    /\ LET found == /\ task_id \in DOMAIN tasks
                    /\ tasks[task_id].user_id = user_id
                    /\ user_id \in DOMAIN users
           status == IF ~found THEN "TaskNotFoundError"
                     ELSE IF ~validate_task_completion_eligibility(
                                  Store, task_id, user_id, now + tz)
                          THEN "TaskAlreadyCompletedError"
                          ELSE "ok"
       IN IF status # "ok"
          THEN /\ sessions' = [sessions EXCEPT ![r] =
                     [@ EXCEPT !.pc = "done", !.task_id = task_id,
                               !.user_id = user_id,
                               !.result = Response("complete", status,
                                                   task_id, user_id)]]
               /\ result' = Response("complete", status, task_id, user_id)
          ELSE /\ sessions' = [sessions EXCEPT ![r] =
                     [@ EXCEPT !.pc = "validated", !.task_id = task_id,
                               !.user_id = user_id,
                               !.user = users[user_id],
                               !.task = tasks[task_id],
                               !.xp_before = users[user_id].xp,
                               !.level_before = users[user_id].level]]
               /\ UNCHANGED result
    /\ UNCHANGED <<now, tz, users, tasks, task_completions, user_achievements,
                   achievements, session_new, hist>>

(* Steps 1 to 8 of TaskCompletionRepository.complete_task: computed on the  *)
(* objects of the session, the counts and the unlocks queried in the store. *)
RepoEvaluate(r) ==
    LET s == sessions[r]
        view == [Store EXCEPT !.users[s.user_id] = s.user,
                              !.tasks[s.task_id] = s.task]
        out == repo_complete_task(view, s.task_id, s.user_id, now, "none")
    IN /\ s.pc = "validated"
       /\ IF out.raised
          THEN /\ sessions' = [sessions EXCEPT ![r] =
                     [@ EXCEPT !.pc = "done",
                               !.result = Response("complete", "Exception",
                                                   s.task_id, s.user_id)]]
               /\ result' = Response("complete", "Exception",
                                     s.task_id, s.user_id)
          ELSE /\ sessions' = [sessions EXCEPT ![r] =
                     [@ EXCEPT !.pc = "evaluated",
                               !.user = out.db.users[s.user_id],
                               !.task = out.db.tasks[s.task_id],
                               !.completion = out.completion,
                               !.streak_updated = out.streak_updated,
                               !.new_streak = out.new_streak,
                               !.pending = out.db.user_achievements
                                               (-) view.user_achievements]]
               /\ UNCHANGED result
       /\ UNCHANGED <<now, tz, users, tasks, task_completions,
                      user_achievements, achievements, session_new, hist>>

(* Step 9: the commit inserts the ledger row and the unlocks and updates    *)
(* the columns the session changed (xp; level when the session raised it;   *)
(* the task's streak, last_completed or completed), then refreshes the user. *)
RepoCommit(r) ==
    LET s == sessions[r]
        written == [xp |-> s.user.xp,
                    level |-> IF s.user.level # s.level_before
                              THEN s.user.level
                              ELSE users[s.user_id].level]
    IN /\ s.pc = "evaluated"
       /\ task_completions' = task_completions (+) Single(s.completion)
       /\ users' = [users EXCEPT ![s.user_id] = written]
       /\ tasks' = [tasks EXCEPT ![s.task_id] = s.task]
       /\ user_achievements' = user_achievements (+) s.pending
       /\ sessions' = [sessions EXCEPT ![r] =
              [@ EXCEPT !.pc = "committed", !.user = written,
                        !.pending = EmptyBag]]
       /\ UNCHANGED <<now, tz, achievements, session_new, result, hist>>

(* Steps 5 and 6 of TaskService.complete_task: the level from the user's    *)
(* refreshed XP, committed when it exceeds the level before, then the       *)
(* achievement pass on the store.                                           *)
ServiceProgress(r) ==
    LET s == sessions[r]
        new_level == calculate_level_from_xp(s.user.xp)
        level_up_occurred == new_level > s.level_before
        levels_gained == IF level_up_occurred
                         THEN new_level - s.level_before ELSE 0
        level_written == level_up_occurred /\ new_level # s.user.level
        db1 == IF level_written
               THEN [Store EXCEPT !.users[s.user_id].level = new_level]
               ELSE Store
        user1 == IF level_up_occurred THEN db1.users[s.user_id] ELSE s.user
        pass == check_and_unlock_achievements(db1, EmptyBag, s.user_id,
                    user1.level, db1.tasks[s.task_id])
    IN /\ s.pc = "committed"
       /\ users' = db1.users
       /\ IF pass.raised
          THEN /\ sessions' = [sessions EXCEPT ![r] =
                     [@ EXCEPT !.pc = "done", !.user = user1,
                               !.result = Response("complete", "Exception",
                                                   s.task_id, s.user_id)]]
               /\ result' = Response("complete", "Exception",
                                     s.task_id, s.user_id)
          ELSE /\ sessions' = [sessions EXCEPT ![r] =
                     [@ EXCEPT !.pc = "progressed", !.user = user1,
                               !.pending = pass.pending,
                               !.level_up_occurred = level_up_occurred,
                               !.levels_gained = levels_gained]]
               /\ UNCHANGED result
       /\ UNCHANGED <<now, tz, tasks, task_completions, user_achievements,
                      achievements, session_new, hist>>

(* The commit of the service's unlocks, and step 7: the response, built     *)
(* from the objects the commit expired, as the store holds them now.        *)
ServiceCommit(r) ==
    LET s == sessions[r]
        gamification ==
            [Response("complete", "ok", s.task_id, s.user_id) EXCEPT
                !.xp_earned = s.completion.xp_earned,
                !.xp_before = s.xp_before,
                !.xp_after = users[s.user_id].xp,
                !.level_before = s.level_before,
                !.level_after = users[s.user_id].level,
                !.level_up_occurred = s.level_up_occurred,
                !.levels_gained = s.levels_gained,
                !.streak_updated = s.streak_updated,
                !.new_streak = s.new_streak]
    IN /\ s.pc = "progressed"
       /\ user_achievements' = user_achievements (+) s.pending
       /\ sessions' = [sessions EXCEPT ![r] =
              [@ EXCEPT !.pc = "done", !.user = users[s.user_id],
                        !.pending = EmptyBag, !.result = gamification]]
       /\ result' = gamification
       /\ UNCHANGED <<now, tz, users, tasks, task_completions, achievements,
                      session_new, hist>>

InitConcurrent ==
    /\ now = 0
    /\ tz = 0
    /\ \E u1 \in InitialUsers :
          users = [u \in UserIds |-> IF u = "u1" THEN u1 ELSE [xp |-> 0, level |-> 1]]
    /\ tasks = [t \in TaskIds |->
                   IF t = "h1" THEN Habit("u1", "HARD") ELSE ToDo("u1", "MEDIUM")]
    /\ task_completions = EmptyBag
    /\ user_achievements = EmptyBag
    /\ achievements = all_achievements
    /\ session_new = EmptyBag
    /\ sessions = [r \in RequestIds |-> IdleSession]
    /\ result = NoResponse
    /\ hist = History(users)

NextConcurrent ==
    \E r \in RequestIds :
        \/ \E req \in Requests : BeginRequest(r, req[1], req[2])
        \/ RepoEvaluate(r)
        \/ RepoCommit(r)
        \/ ServiceProgress(r)
        \/ ServiceCommit(r)

SpecConcurrent == InitConcurrent /\ [][NextConcurrent]_vars

----------------------------------------------------------------------------
(* The XP and level calculators, applied to every input of a bounded range. *)

MaxXp == 1000

CalculateXpForTask(task_type, difficulty) ==
    /\ LET task == IF task_type = "habit" THEN Habit("u1", difficulty)
                   ELSE ToDo("u1", difficulty)
       IN result' = [op |-> "calculate_xp_for_task", status |-> "ok",
                     task_type |-> task.task_type,
                     difficulty |-> task.difficulty,
                     xp_earned |-> calculate_xp_earned(task.difficulty)]
    /\ UNCHANGED <<now, tz, users, tasks, task_completions, user_achievements,
                   achievements, session_new, sessions, hist>>

CalculateLevelFromXp(xp) ==
    /\ result' = [op |-> "calculate_level_from_xp", status |-> "ok",
                  xp |-> xp,
                  level |-> calculate_level_from_xp(xp),
                  xp_needed |-> calculate_xp_needed_for_next_level(xp)]
    /\ UNCHANGED <<now, tz, users, tasks, task_completions, user_achievements,
                   achievements, session_new, sessions, hist>>

InitCalculators ==
    /\ now = 0
    /\ tz = 0
    /\ users = [u \in UserIds |-> [xp |-> 0, level |-> 1]]
    /\ tasks = [t \in TaskIds |->
                   IF t = "h1" THEN Habit("u1", "HARD") ELSE ToDo("u1", "MEDIUM")]
    /\ task_completions = EmptyBag
    /\ user_achievements = EmptyBag
    /\ achievements = all_achievements
    /\ session_new = EmptyBag
    /\ sessions = NoSessions
    /\ result = NoResponse
    /\ hist = History(users)

NextCalculators ==
    \/ \E task_type \in {"habit", "todo"}, difficulty \in Difficulty :
          CalculateXpForTask(task_type, difficulty)
    \/ \E xp \in 0..MaxXp : CalculateLevelFromXp(xp)

SpecCalculators == InitCalculators /\ [][NextCalculators]_vars

----------------------------------------------------------------------------
(* A user as the API creates it (0 XP, level 1) with enough tasks to pass   *)
(* level 2, completing and uncompleting them on one day.                    *)

FreshTaskIds == {"f1", "f2", "f3", "f4"}

InitFresh ==
    /\ now = 0
    /\ tz = 0
    /\ users = [u \in UserIds |-> [xp |-> 0, level |-> 1]]
    /\ tasks = [t \in FreshTaskIds |->
                   IF t = "f1" THEN Habit("u1", "HARD") ELSE ToDo("u1", "HARD")]
    /\ task_completions = EmptyBag
    /\ user_achievements = EmptyBag
    /\ achievements = all_achievements
    /\ session_new = EmptyBag
    /\ sessions = NoSessions
    /\ result = NoResponse
    /\ hist = History(users)

NextFresh ==
    \/ \E t \in FreshTaskIds : CompleteTask(t, "u1", "none") /\ UNCHANGED hist
    \/ \E t \in FreshTaskIds : UncompleteTask(t, "u1")

SpecFresh == InitFresh /\ [][NextFresh]_vars


----------------------------------------------------------------------------
(* Two requests in flight for a user as the API creates it, who owns two   *)
(* habits and has completed nothing yet.                                   *)

InitFirstHabits ==
    /\ now = 0
    /\ tz = 0
    /\ users = [u \in UserIds |-> [xp |-> 0, level |-> 1]]
    /\ tasks = [t \in TaskIds |-> Habit("u1", IF t = "h1" THEN "HARD" ELSE "MEDIUM")]
    /\ task_completions = EmptyBag
    /\ user_achievements = EmptyBag
    /\ achievements = all_achievements
    /\ session_new = EmptyBag
    /\ sessions = [r \in RequestIds |-> IdleSession]
    /\ result = NoResponse
    /\ hist = History(users)

SpecFirstHabits == InitFirstHabits /\ [][NextConcurrent]_vars

----------------------------------------------------------------------------
(* TaskRepository and the tasks router: creating, updating and deleting   *)
(* habits and to-dos.  Tags, titles, descriptions, deadlines and the      *)
(* frequency fields take no part in a completion and are left out.        *)

(* The ledger without the rows of one task. *)
WithoutTask(completions, task_id) ==
    [c \in {x \in BagToSet(completions) : x.task_id # task_id} |-> completions[c]]

(* The tasks table without one row. *)
WithoutRow(table, task_id) ==
    [t \in DOMAIN table \ {task_id} |-> table[t]]

(* The tasks table with one more row, under the id the store gave it. *)
WithRow(table, task_id, task) ==
    [t \in DOMAIN table \cup {task_id} |-> IF t = task_id THEN task ELSE table[t]]

create_habit(db, new_id, user_id, difficulty) ==
    [db EXCEPT !.tasks = WithRow(@, new_id, Habit(user_id, difficulty))]

create_todo(db, new_id, user_id, difficulty) ==
    [db EXCEPT !.tasks = WithRow(@, new_id, ToDo(user_id, difficulty))]

(* [found, db]: the habit's difficulty is overwritten with the request's. *)
update_habit(db, habit_id, user_id, difficulty) ==
    IF /\ habit_id \in DOMAIN db.tasks
       /\ db.tasks[habit_id].user_id = user_id
       /\ db.tasks[habit_id].task_type = "habit"
    THEN [found |-> TRUE,
          db |-> [db EXCEPT !.tasks[habit_id].difficulty = difficulty]]
    ELSE [found |-> FALSE, db |-> db]

(* [found, db]: difficulty is None when the request leaves the field out. *)
update_todo(db, todo_id, user_id, difficulty) ==
    IF /\ todo_id \in DOMAIN db.tasks
       /\ db.tasks[todo_id].user_id = user_id
       /\ db.tasks[todo_id].task_type = "todo"
    THEN [found |-> TRUE,
          db |-> IF difficulty = None
                 THEN db
                 ELSE [db EXCEPT !.tasks[todo_id].difficulty = TheValue(difficulty)]]
    ELSE [found |-> FALSE, db |-> db]

(* [deleted, db] *)
delete_habit(db, habit_id, user_id) ==
    IF /\ habit_id \in DOMAIN db.tasks
       /\ db.tasks[habit_id].user_id = user_id
       /\ db.tasks[habit_id].task_type = "habit"
    THEN [deleted |-> TRUE,
          db |-> [db EXCEPT
                    !.task_completions = WithoutTask(@, habit_id),
                    !.tasks = WithoutRow(@, habit_id)]]
    ELSE [deleted |-> FALSE, db |-> db]


(* A deletion that leaves the to-do's ledger rows behind. *)
delete_todo_keeps_rows(db, todo_id, user_id) ==
    IF /\ todo_id \in DOMAIN db.tasks
       /\ db.tasks[todo_id].user_id = user_id
       /\ db.tasks[todo_id].task_type = "todo"
    THEN [deleted |-> TRUE,
          db |-> [db EXCEPT !.tasks = WithoutRow(@, todo_id)]]
    ELSE [deleted |-> FALSE, db |-> db]


(* A deletion that does not look at the owner of the to-do. *)
delete_todo_any_owner(db, todo_id, user_id) ==
    IF /\ todo_id \in DOMAIN db.tasks
       /\ db.tasks[todo_id].task_type = "todo"
    THEN [deleted |-> TRUE,
          db |-> [db EXCEPT
                    !.task_completions = WithoutTask(@, todo_id),
                    !.tasks = WithoutRow(@, todo_id)]]
    ELSE [deleted |-> FALSE, db |-> db]

(* [deleted, db] *)
delete_todo(db, todo_id, user_id) ==
    IF /\ todo_id \in DOMAIN db.tasks
       /\ db.tasks[todo_id].user_id = user_id
       /\ db.tasks[todo_id].task_type = "todo"
    THEN [deleted |-> TRUE,
          db |-> [db EXCEPT
                    !.task_completions = WithoutTask(@, todo_id),
                    !.tasks = WithoutRow(@, todo_id)]]
    ELSE [deleted |-> FALSE, db |-> db]

(* The ids the store gives to the habit and to the to-do of a behaviour. *)
NewHabitId == "k1"
NewTodoId == "k2"
NewTaskIds == {NewHabitId, NewTodoId}

(* The difficulty tasks are created with, and the one updates change to. *)
CreatedDifficulty == "EASY"
RequestDifficulties == {"EASY", "HARD"}

(* The XP up to which the lifecycle specification lets a user complete. *)
MaxLifecycleXp == 15

(* POST /tasks/habits/ *)
CreateHabit(new_id, user_id, difficulty) ==
    /\ new_id \notin DOMAIN tasks
    /\ Commit(create_habit(Store, new_id, user_id, difficulty))
    /\ result' = Response("create_habit", "ok", new_id, user_id)
    /\ UNCHANGED <<now, tz, achievements, session_new, sessions, hist>>

(* POST /tasks/todos/ *)
CreateTodo(new_id, user_id, difficulty) ==
    /\ new_id \notin DOMAIN tasks
    /\ Commit(create_todo(Store, new_id, user_id, difficulty))
    /\ result' = Response("create_todo", "ok", new_id, user_id)
    /\ UNCHANGED <<now, tz, achievements, session_new, sessions, hist>>

(* PUT /tasks/habits/{habit_id} *)
UpdateHabit(habit_id, user_id, difficulty) ==
    LET out == update_habit(Store, habit_id, user_id, difficulty)
    IN /\ Commit(out.db)
       /\ result' = Response("update_habit",
                             IF out.found THEN "ok" ELSE "NotFound",
                             habit_id, user_id)
       /\ UNCHANGED <<now, tz, achievements, session_new, sessions, hist>>

(* PUT /tasks/todos/{todo_id} *)
UpdateTodo(todo_id, user_id, difficulty) ==
    LET out == update_todo(Store, todo_id, user_id, difficulty)
    IN /\ Commit(out.db)
       /\ result' = Response("update_todo",
                             IF out.found THEN "ok" ELSE "NotFound",
                             todo_id, user_id)
       /\ UNCHANGED <<now, tz, achievements, session_new, sessions, hist>>

(* DELETE /tasks/habits/{habit_id} *)
DeleteHabit(habit_id, user_id) ==
    LET out == delete_habit(Store, habit_id, user_id)
    IN /\ Commit(out.db)
       /\ result' = Response("delete_habit",
                             IF out.deleted THEN "ok" ELSE "NotFound",
                             habit_id, user_id)
       /\ UNCHANGED <<now, tz, achievements, session_new, sessions, hist>>

(* DELETE /tasks/todos/{todo_id} *)
DeleteTodo(todo_id, user_id) ==
    LET out == delete_todo(Store, todo_id, user_id)
    IN /\ Commit(out.db)
       /\ result' = Response("delete_todo",
                             IF out.deleted THEN "ok" ELSE "NotFound",
                             todo_id, user_id)
       /\ UNCHANGED <<now, tz, achievements, session_new, sessions, hist>>

(* Two users as the API creates them and no tasks: every task of a        *)
(* behaviour is created through the API.                                  *)
InitLifecycle ==
    /\ now = 0
    /\ tz = 0
    /\ users = [u \in UserIds |-> [xp |-> 0, level |-> 1]]
    /\ tasks = <<>>
    /\ task_completions = EmptyBag
    /\ user_achievements = EmptyBag
    /\ achievements = all_achievements
    /\ session_new = EmptyBag
    /\ sessions = NoSessions
    /\ result = NoResponse
    /\ hist = History(users)

(* u1 creates a habit, either user creates a to-do; every other request  *)
(* names any of the task ids, whoever owns the task and whatever its type. *)
NextLifecycle ==
    \/ CreateHabit(NewHabitId, "u1", CreatedDifficulty)
    \/ \E u \in UserIds : CreateTodo(NewTodoId, u, CreatedDifficulty)
    \/ \E t \in NewTaskIds, u \in UserIds, d \in RequestDifficulties :
          UpdateHabit(t, u, d)
    \/ \E t \in NewTaskIds, u \in UserIds, d \in {None, Some("HARD")} :
          UpdateTodo(t, u, d)
    \/ \E t \in NewTaskIds, u \in UserIds : DeleteHabit(t, u)
    \/ \E t \in NewTaskIds, u \in UserIds : DeleteTodo(t, u)
    \/ \E t \in NewTaskIds, u \in UserIds :
          /\ users[u].xp < MaxLifecycleXp
          /\ CompleteTask(t, u, "none")
          /\ UNCHANGED hist
    \/ \E t \in NewTaskIds, u \in UserIds : UncompleteTask(t, u)

SpecLifecycle == InitLifecycle /\ [][NextLifecycle]_vars

----------------------------------------------------------------------------
(* Properties. *)

Stored == <<users, tasks, task_completions, user_achievements>>

IsHabit(t) == t \in DOMAIN tasks /\ tasks[t].task_type = "habit"
IsToDo(t) == t \in DOMAIN tasks /\ tasks[t].task_type = "todo"

(* The step is a completeTask request that returned its result. *)
CompletedOk == result'.op = "complete" /\ result'.status = "ok"

(* The calendar day, on the server's clock, of a stored UTC instant. *)
LocalDay(utc) == DateOf(utc + tz)

(* C1: the ledger never holds two rows for one habit on one calendar day,   *)
(* whatever the time of day and the server's UTC offset: a second           *)
(* completeTask on the day of the first is refused.                         *)
C1_OneHabitRowPerDay ==
    \A c \in BagToSet(task_completions) :
        IsHabit(c.task_id) =>
            /\ CopiesIn(c, task_completions) = 1
            /\ \A d \in BagToSet(task_completions) :
                   (d.task_id = c.task_id /\ d.user_id = c.user_id /\ d # c)
                       => LocalDay(d.completed_date) # LocalDay(c.completed_date)

(* C2: a habit last completed on day N: a completeTask on day N+1 adds one  *)
(* to current_streak, a completeTask after a gap of more than one day       *)
(* resets current_streak to 1 (the days counted on the server's calendar    *)
(* and on the UTC calendar alike).                                          *)
C2_StreakContinuity ==
    [][\A h \in DOMAIN tasks :
          (/\ CompletedOk
           /\ result'.task_id = h
           /\ IsHabit(h)
           /\ tasks[h].last_completed # None)
          => LET last == TheValue(tasks[h].last_completed)
                 gap == LocalDay(now) - LocalDay(last)
                 gap_utc == DateOf(now) - DateOf(last)
             IN /\ (gap = 1 /\ gap_utc = 1)
                      => tasks'[h].current_streak = tasks[h].current_streak + 1
                /\ (gap > 1 /\ gap_utc > 1)
                      => tasks'[h].current_streak = 1]_vars

(* C3: every successful completeTask appends exactly one ledger row for     *)
(* (task, user) with the XP of the task's difficulty (EASY 10, MEDIUM 20,   *)
(* HARD 30) and adds exactly that XP to the user.                           *)
XpForDifficulty == [EASY |-> 10, MEDIUM |-> 20, HARD |-> 30]

C3_LedgerRowAndXp ==
    [][CompletedOk =>
          LET t == result'.task_id
              u == result'.user_id
              xp == XpForDifficulty[tasks[t].difficulty]
          IN /\ task_completions' =
                    task_completions (+) Single(Completion(t, u, now, xp))
             /\ users'[u].xp = users[u].xp + xp
             /\ result'.xp_earned = xp
             /\ result'.xp_after = result'.xp_before + xp
             /\ result'.xp_before = users[u].xp]_vars

C3_Witness ==
    /\ result.op = "complete"
    /\ result.status = "ok"
    /\ BagCardinality(task_completions) = 2
    /\ Cardinality({c.task_id : c \in BagToSet(task_completions)}) = 2
    /\ users["u1"].xp = hist.xp0["u1"] + 30 + 20

(* C4: after every successful completeTask the user's level is the larger   *)
(* of the level before and floor(xp_after / 100) + 1, jumps of several      *)
(* levels included, and the response reports the levels gained; from 50 XP  *)
(* and level 1, ten HARD completions end at 350 XP and level 4, and the     *)
(* levels_gained reported sum to the final level minus the initial level.   *)
C4_LevelStep ==
    CompletedOk =>
        LET u == result'.user_id
        IN /\ users'[u].level =
                 Max(users[u].level, (users'[u].xp \div 100) + 1)
           /\ result'.levels_gained = users'[u].level - users[u].level
           /\ result'.level_after = users'[u].level

C4_Scenario ==
    /\ \A u \in UserIds :
          hist.unreported[u] = 0
              => hist.reported[u] = users[u].level - hist.level0[u]
    /\ (/\ hist.xp0["u1"] = 50
        /\ hist.level0["u1"] = 1
        /\ BagCardinality(task_completions) = 10)
       => (users["u1"].xp = 350 /\ users["u1"].level = 4)

C5_OneUnlockPerPair ==
    \A row \in BagToSet(user_achievements) :
        CopiesIn(row, user_achievements) = 1

(* LEVEL_5 is held once, after a later completion evaluated it again. *)
C5_Witness ==
    /\ result.op = "complete"
    /\ result.status = "ok"
    /\ result.level_before >= 5
    /\ CopiesIn(UnlockRow("u1", "LEVEL_5"), user_achievements) = 1

(* C6: unlock called twice for one (user, achievement) pair leaves exactly  *)
(* one UserAchievement row in the store, whether or not the session was     *)
(* flushed or committed between the two calls.                              *)
C6_UnlockTwiceOneRow ==
    \A u \in UserIds, k \in AchievementKey :
        CopiesIn(UnlockRow(u, k), user_achievements) <= 1

(* C7: completeTask by its owner on a ToDo whose completed flag is true     *)
(* fails with AlreadyCompleted.                                             *)
C7_CompletedToDoRefused ==
    [][(/\ result'.op = "complete"
        /\ IsToDo(result'.task_id)
        /\ tasks[result'.task_id].user_id = result'.user_id
        /\ tasks[result'.task_id].completed)
       => result'.status = "TaskAlreadyCompletedError"]_vars

C7_Witness ==
    /\ result.op = "complete"
    /\ result.status = "TaskAlreadyCompletedError"
    /\ IsToDo(result.task_id)
    /\ tasks[result.task_id].completed

C9_ValidationBeforeMutation ==
    [][result'.op = "complete" =>
          LET t == result'.task_id
              u == result'.user_id
          IN /\ (t \notin DOMAIN tasks \/ u \notin DOMAIN users
                    \/ tasks[t].user_id # u)
                   => result'.status = "TaskNotFoundError"
             /\ result'.status \in {"TaskNotFoundError", "TaskAlreadyCompletedError"}
                   => UNCHANGED Stored]_vars

C9_Witness ==
    /\ result.op = "complete"
    /\ result.status = "TaskNotFoundError"
    /\ result.task_id = "h1"
    /\ result.user_id = "u2"
    /\ task_completions # EmptyBag

(* C10: a completeTask that fails after validation leaves no partial state: *)
(* nothing the request wrote is in the store afterwards.                    *)
C10_NoPartialState ==
    [][(result'.op = "complete" /\ result'.status = "Exception")
          => UNCHANGED Stored]_vars

(* Both requests of the concurrent specification returned their result. *)
BothSucceeded(r1, r2) ==
    /\ r1 # r2
    /\ sessions[r1].pc = "done" /\ sessions[r1].result.status = "ok"
    /\ sessions[r2].pc = "done" /\ sessions[r2].result.status = "ok"

(* C11: two concurrent completeTask requests of one user on two different   *)
(* tasks lose no XP update: once both have succeeded, xp is the initial xp  *)
(* plus the xp_earned of both, and level is max(initial level,              *)
(* floor(xp / 100) + 1).                                                    *)
C11_NoLostXpUpdate ==
    \A r1, r2 \in RequestIds :
        (/\ BothSucceeded(r1, r2)
         /\ sessions[r1].user_id = sessions[r2].user_id
         /\ sessions[r1].task_id # sessions[r2].task_id)
        => LET u == sessions[r1].user_id
           IN /\ users[u].xp = hist.xp0[u] + sessions[r1].result.xp_earned
                                   + sessions[r2].result.xp_earned
              /\ users[u].level =
                     Max(hist.level0[u], (users[u].xp \div 100) + 1)

(* C12: of two concurrent completeTask requests on the same (task, user) on *)
(* the same day at most one succeeds: the ledger gains at most one row for  *)
(* the task, XP is awarded at most once, a habit's streak grows by at most 1. *)
C12_AtMostOneSucceeds ==
    /\ \A r1, r2 \in RequestIds :
          (/\ r1 # r2
           /\ sessions[r1].task_id = sessions[r2].task_id
           /\ sessions[r1].user_id = sessions[r2].user_id)
          => ~BothSucceeded(r1, r2)
    /\ \A c \in BagToSet(task_completions) : CopiesIn(c, task_completions) <= 1
    /\ \A t \in DOMAIN tasks : tasks[t].current_streak <= 1

(* C13: every result completeTask returns is internally consistent:         *)
(* xp_after = xp_before + xp_earned; level_up_occurred exactly when         *)
(* level_after > level_before; levels_gained = level_after - level_before;  *)
(* streak_updated exactly when the task is a Habit; new_streak is the       *)
(* habit's stored current_streak, 0 for a ToDo.                             *)
C13_ResultConsistent ==
    [][CompletedOk =>
          LET r == result'
              t == result'.task_id
          IN /\ r.xp_after = r.xp_before + r.xp_earned
             /\ r.xp_after = users'[r.user_id].xp
             /\ r.level_up_occurred <=> (r.level_after > r.level_before)
             /\ r.levels_gained = r.level_after - r.level_before
             /\ r.streak_updated <=> IsHabit(t)
             /\ r.new_streak = IF IsHabit(t) THEN tasks'[t].current_streak ELSE 0]_vars

(* A result returned for a user whose level is ahead of its XP, as an       *)
(* uncomplete leaves it. *)
C13_Witness ==
    /\ result.op = "complete"
    /\ result.status = "ok"
    /\ result.level_before > (result.xp_before \div 100) + 1
    /\ result.xp_after = result.xp_before + result.xp_earned

(* C14: the XP of a task is exactly 10 for EASY, 20 for MEDIUM and 30 for   *)
(* HARD, for habits and to-dos alike.                                       *)
C14_XpForDifficulty ==
    result.op = "calculate_xp_for_task" =>
        /\ result.difficulty = "EASY" => result.xp_earned = 10
        /\ result.difficulty = "MEDIUM" => result.xp_earned = 20
        /\ result.difficulty = "HARD" => result.xp_earned = 30

C14_Witness ==
    /\ result.op = "calculate_xp_for_task"
    /\ result.task_type = "todo"
    /\ result.difficulty = "HARD"
    /\ result.xp_earned = 30

(* C15: for every xp >= 0 the level is floor(xp / 100) + 1 (0 -> 1,         *)
(* 99 -> 1, 100 -> 2, 1000 -> 11), it never decreases when xp grows, and    *)
(* the XP needed for the next level, level * 100 - xp, lies in 1..100.      *)
C15_LevelOfXp ==
    result.op = "calculate_level_from_xp" =>
        /\ result.level = (result.xp \div 100) + 1
        /\ result.xp = 0 => result.level = 1
        /\ result.xp = 99 => result.level = 1
        /\ result.xp = 100 => result.level = 2
        /\ result.xp = 1000 => result.level = 11
        /\ result.xp_needed = result.level * 100 - result.xp
        /\ result.xp_needed \in 1..100

C15_Monotonic ==
    (/\ result.op = "calculate_level_from_xp"
     /\ result'.op = "calculate_level_from_xp"
     /\ result'.xp >= result.xp)
    => result'.level >= result.level

C15_LevelFromXp == []C15_LevelOfXp /\ [][C15_Monotonic]_vars

C15_Witness ==
    /\ result.op = "calculate_level_from_xp"
    /\ result.xp = 1000
    /\ result.level = 11
    /\ result.xp_needed = 100

(* C16: a ToDo with completed = true has a non-null completed_at. *)
C16_CompletedHasCompletedAt ==
    \A t \in DOMAIN tasks :
        (IsToDo(t) /\ tasks[t].completed) => tasks[t].completed_at # None

(* C17: a Habit with current_streak > 0 has a non-null last_completed. *)
C17_StreakHasLastCompleted ==
    \A t \in DOMAIN tasks :
        (IsHabit(t) /\ tasks[t].current_streak > 0)
            => tasks[t].last_completed # None

(* C18: a user's xp is non-negative and no operation decreases it. *)
C18_XpNeverDecreases ==
    [][\A u \in DOMAIN users :
          users'[u].xp >= users[u].xp /\ users'[u].xp >= 0]_vars

(* C19: from a user created with xp = 0 and level = 1, in every state that  *)
(* completeTask and uncompleteTask reach, level = floor(xp / 100) + 1.      *)
C19_LevelDerivedFromXp ==
    \A u \in DOMAIN users :
        (hist.xp0[u] = 0 /\ hist.level0[u] = 1)
            => users[u].level = (users[u].xp \div 100) + 1

(* C20: a successful completeTask on a Habit whose last_completed is null   *)
(* sets current_streak to 1, reports streak_updated and sets last_completed *)
(* to the completion time.                                                  *)
C20_FirstCompletionStreak ==
    [][(/\ CompletedOk
        /\ IsHabit(result'.task_id)
        /\ tasks[result'.task_id].last_completed = None)
       => LET t == result'.task_id
          IN /\ tasks'[t].current_streak = 1
             /\ result'.new_streak = 1
             /\ result'.streak_updated
             /\ tasks'[t].last_completed = Some(now)]_vars

(* C21: unlocks only go forward.  No completeTask, uncompleteTask, task    *)
(* creation, update or deletion removes an unlock row: every (user,        *)
(* achievement) pair held before a step is still held after it, also when  *)
(* the completion that triggered the unlock is reversed or its task is     *)
(* deleted.                                                                *)
C21_UnlocksForwardOnly ==
    [][\A row \in BagToSet(user_achievements) :
          CopiesIn(row, user_achievements') >= CopiesIn(row, user_achievements)]_vars

(* The habit whose first completion unlocked FIRST_HABIT has been deleted, *)
(* no ledger row of the user is left, and the unlock is still held.        *)
C21_Witness ==
    /\ result.op = "delete_habit" /\ result.status = "ok"
    /\ result.user_id = "u1"
    /\ \A c \in BagToSet(task_completions) : c.user_id # "u1"
    /\ CopiesIn(UnlockRow("u1", "FIRST_HABIT"), user_achievements) = 1

(* The step is a delete request for a task of the given type. *)
DeleteStep(op, task_type) ==
    LET t == result'.task_id
        u == result'.user_id
        owned == /\ t \in DOMAIN tasks
                 /\ tasks[t].user_id = u
                 /\ tasks[t].task_type = task_type
    IN result'.op = op =>
          IF owned
          THEN /\ result'.status = "ok"
               /\ DOMAIN tasks' = DOMAIN tasks \ {t}
               /\ \A o \in DOMAIN tasks' : tasks'[o] = tasks[o]
               /\ \A c \in BagToSet(task_completions') : c.task_id # t
               /\ \A c \in BagToSet(task_completions) :
                     c.task_id # t =>
                        CopiesIn(c, task_completions') = CopiesIn(c, task_completions)
               /\ BagToSet(task_completions') \subseteq BagToSet(task_completions)
          ELSE /\ result'.status = "NotFound"
               /\ Stored' = Stored

(* C22: deleting a Habit or ToDo the caller owns removes the task and      *)
(* every ledger row that references it and leaves the other tasks and      *)
(* their rows as they were; a delete request for a task that is absent, of *)
(* the other type or owned by another user is answered "not found" and     *)
(* changes nothing; and no ledger row ever references a missing task.      *)
C22_DeleteCascades ==
    /\ [](\A c \in BagToSet(task_completions) : c.task_id \in DOMAIN tasks)
    /\ [][DeleteStep("delete_habit", "habit") /\ DeleteStep("delete_todo", "todo")]_vars

(* u1 deleted its completed to-do: the to-do and its row are gone (only   *)
(* the XP it earned is left), the habit's row is still in the ledger.     *)
C22_Witness ==
    /\ result.op = "delete_todo" /\ result.status = "ok" /\ result.user_id = "u1"
    /\ NewTodoId \notin DOMAIN tasks
    /\ \E c \in BagToSet(task_completions) :
          /\ task_completions = Single(c)
          /\ c.task_id = NewHabitId
          /\ users["u1"].xp > c.xp_earned

(* C23: a ledger row's xp_earned is fixed when the row is created.  A row  *)
(* is written with the XP of the task's difficulty at that moment; no      *)
(* later step changes a row; an update of a habit or to-do, whatever       *)
(* difficulty it sets, leaves the ledger and the users as they were; and   *)
(* an uncomplete subtracts the xp_earned stored in the row it removes      *)
(* (floored at 0), not the XP of the task's current difficulty.            *)
C23_XpEarnedFixed ==
    [][/\ \A c \in BagToSet(task_completions') :
             \/ /\ c \in BagToSet(task_completions)
                /\ CopiesIn(c, task_completions') <= CopiesIn(c, task_completions)
             \/ /\ result'.op = "complete"
                /\ c.task_id = result'.task_id
                /\ BagCardinality(task_completions')
                      = BagCardinality(task_completions) + 1
                /\ c.xp_earned = XpForDifficulty[tasks[c.task_id].difficulty]
       /\ result'.op \in {"update_habit", "update_todo"} =>
             /\ task_completions' = task_completions
             /\ users' = users
       /\ (result'.op = "uncomplete" /\ result'.status = "ok") =>
             \E c \in BagToSet(task_completions) :
                /\ task_completions' = task_completions (-) Single(c)
                /\ c.task_id = result'.task_id
                /\ result'.xp_earned = c.xp_earned
                /\ users'[result'.user_id].xp
                      = Max(0, users[result'.user_id].xp - c.xp_earned)
      ]_vars

(* An uncomplete gave back the 10 XP its row had stored although the task  *)
(* had been updated to HARD (30 XP) after the completion.                  *)
C23_Witness ==
    /\ result.op = "uncomplete" /\ result.status = "ok"
    /\ result.task_id \in DOMAIN tasks
    /\ tasks[result.task_id].difficulty = "HARD"
    /\ result.xp_earned = 10
    /\ result.xp_before - result.xp_after = 10

Holds(user_id, key) == CopiesIn(UnlockRow(user_id, key), user_achievements) > 0

(* The user of the step's request holds the achievement after the step. *)
HeldAfter(key) == CopiesIn(UnlockRow(result'.user_id, key), user_achievements') > 0

(* Every threshold rule whose condition holds, in the state after the     *)
(* step, for the user and the task of the step's request has its          *)
(* achievement unlocked in that state.                                     *)
ThresholdRulesUnlocked ==
    LET user_id == result'.user_id
        task_id == result'.task_id
        level == users'[user_id].level
        streak == tasks'[task_id].current_streak
        is_habit == tasks'[task_id].task_type = "habit"
        rows == SumCopies({c \in BagToSet(task_completions') : c.user_id = user_id},
                          task_completions')
    IN /\ level >= 5 => HeldAfter("LEVEL_5")
       /\ level >= 10 => HeldAfter("LEVEL_10")
       /\ level >= 20 => HeldAfter("LEVEL_20")
       /\ level >= 50 => HeldAfter("LEVEL_50")
       /\ (is_habit /\ streak >= 3) => HeldAfter("STREAK_3")
       /\ (is_habit /\ streak >= 7) => HeldAfter("STREAK_7")
       /\ (is_habit /\ streak >= 30) => HeldAfter("STREAK_30")
       /\ (is_habit /\ streak >= 100) => HeldAfter("STREAK_100")
       /\ rows >= 10 => HeldAfter("COMPLETE_10_TASKS")
       /\ rows >= 50 => HeldAfter("COMPLETE_50_TASKS")
       /\ rows >= 100 => HeldAfter("COMPLETE_100_TASKS")
       /\ rows >= 500 => HeldAfter("COMPLETE_500_TASKS")

C25_FirstCompletionUnlocked ==
    \A r \in RequestIds :
        (/\ sessions[r].pc = "done" /\ sessions[r].result.status = "ok"
         /\ \A o \in RequestIds \ {r} : sessions[o].task_id # sessions[r].task_id)
        => LET s == sessions[r]
           IN /\ tasks[s.task_id].task_type = "habit"
                    => Holds(s.user_id, "FIRST_HABIT")
              /\ tasks[s.task_id].task_type = "todo"
                    => Holds(s.user_id, "FIRST_TODO")

(* C26: whatever the interleaving of two concurrent requests that evaluate *)
(* achievements for the same user, the store holds at most one             *)
(* UserAchievement row per (user, achievement) pair: no row is stored      *)
(* twice.  Requests racing on one and the same task are left to C12: here  *)
(* the two requests are on different tasks.                                *)
C26_NoDuplicateUnlockConcurrently ==
    (\A r1, r2 \in RequestIds :
        r1 # r2 => sessions[r1].task_id # sessions[r2].task_id)
    => BagCardinality(user_achievements) = Cardinality(BagToSet(user_achievements))

RECURSIVE SumXpEarned(_, _)
(* The sum of xp_earned over the rows S of the ledger B, copies counted. *)
SumXpEarned(S, B) ==
    IF S = {} THEN 0
    ELSE LET c == CHOOSE x \in S : TRUE
         IN c.xp_earned * CopiesIn(c, B) + SumXpEarned(S \ {c}, B)

LedgerXp(user_id) ==
    SumXpEarned({c \in BagToSet(task_completions) : c.user_id = user_id},
                task_completions)

(* C27: XP conservation.  Starting from xp = 0 and an empty ledger, after  *)
(* any sequence of create, complete, uncomplete, update and delete         *)
(* requests each user's xp equals the sum of xp_earned over the user's     *)
(* remaining ledger rows.                                                  *)
C27_XpConservation ==
    \A u \in UserIds : users[u].xp = LedgerXp(u)

(* The step is an uncompleteTask that directly follows the successful      *)
(* completeTask of the same task by the same user.                         *)
UncompleteAfterComplete ==
    /\ result.op = "complete" /\ result.status = "ok"
    /\ result'.op = "uncomplete"
    /\ result'.task_id = result.task_id
    /\ result'.user_id = result.user_id

(* C28: round trip.  An uncompleteTask directly after a successful         *)
(* completeTask of the same task, at every time of day and UTC offset of   *)
(* the server, succeeds and restores the user's xp, the habit's streak or  *)
(* the to-do's completed flag and the ledger rows of the task to what they *)
(* were before the completion; after it the task can be completed again    *)
(* the same day.                                                           *)
C28_RoundTrip ==
    [][UncompleteAfterComplete =>
          LET t == result.task_id
              u == result.user_id
          IN /\ result'.status = "ok"
             /\ users'[u].xp = result.xp_before
             /\ tasks[t].task_type = "habit" =>
                   tasks'[t].current_streak = result.new_streak - 1
             /\ tasks[t].task_type = "todo" => ~tasks'[t].completed
             /\ task_completions' (+) Single(Completion(t, u, now, result.xp_earned))
                   = task_completions
             /\ validate_task_completion_eligibility(Store', t, u, now + tz)
      ]_vars

(* The number of ledger rows that reference the task. *)
RowsOf(task_id) ==
    SumCopies({c \in BagToSet(task_completions) : c.task_id = task_id},
              task_completions)

(* C29: under sequential complete and uncomplete requests a ToDo that      *)
(* started uncompleted and without rows has completed = true exactly when  *)
(* exactly one ledger row references it, and never more than one row.      *)
C29_ToDoFlagMatchesLedger ==
    \A t \in DOMAIN tasks :
        tasks[t].task_type = "todo" =>
            /\ RowsOf(t) <= 1
            /\ tasks[t].completed <=> (RowsOf(t) = 1)

(* A to-do was completed and the completion then reversed: the flag is     *)
(* false again and no row references the to-do.                            *)
C29_Witness ==
    /\ result.op = "uncomplete" /\ result.status = "ok"
    /\ IsToDo(result.task_id)
    /\ ~tasks[result.task_id].completed
    /\ RowsOf(result.task_id) = 0
    /\ users[result.user_id].xp = hist.xp0[result.user_id]

(* Everything the store holds of one user: the users row, the user's       *)
(* tasks, the ledger rows of the user or of the user's tasks, the unlocks. *)
StateOf(user_id) ==
    LET own == {t \in DOMAIN tasks : tasks[t].user_id = user_id}
    IN [user |-> users[user_id],
        tasks |-> [t \in own |-> tasks[t]],
        task_completions |->
            [c \in {x \in BagToSet(task_completions) :
                        x.user_id = user_id \/ x.task_id \in own}
                |-> task_completions[c]],
        user_achievements |->
            [r \in {x \in BagToSet(user_achievements) : x.user_id = user_id}
                |-> user_achievements[r]]]

(* C30: user isolation.  No create, completeTask, uncompleteTask, update   *)
(* or delete request issued by one user, whatever task id it names (a task *)
(* of the other user included), changes the other user's xp or level,      *)
(* tasks, ledger rows or unlocks.                                          *)
C30_UserIsolation ==
    [][\A b \in UserIds :
          (result'.op # "none" /\ result'.user_id # b) => StateOf(b)' = StateOf(b)]_vars

(* u1 asked to delete the completed to-do of u2 and was answered "not     *)
(* found": the to-do, its row and u2's XP are in place.                    *)
C30_Witness ==
    /\ result.op = "delete_todo" /\ result.status = "NotFound"
    /\ result.user_id = "u1"
    /\ result.task_id \in DOMAIN tasks
    /\ tasks[result.task_id].user_id = "u2"
    /\ tasks[result.task_id].completed
    /\ RowsOf(result.task_id) = 1
    /\ users["u2"].xp > 0

====
